---- MODULE Spec2Model ----
(***************************************************************************)
(* Verification model of the analytics platform:                           *)
(*   - src/analytics/api/main.py: event collection (collect_events,        *)
(*     ClickHouseManager.insert_events, DataCleaner) and identity          *)
(*     resolution (ClickHouseManager.identify_user);                       *)
(*   - src/analytics/integrations/google_ads_sync.py: the Google Ads sync  *)
(*     job (GoogleAdsSync) and its scheduler loop (main).                  *)
(*                                                                         *)
(* Strings whose characters matter (user agents) are sequences of          *)
(* one-character strings; "NUL" stands for a control character (U+0000)   *)
(* and "SURR" for a lone surrogate (U+D800), which str.encode() rejects.   *)
(***************************************************************************)
EXTENDS Integers, Sequences, FiniteSets, TLC

VARIABLES
    \* ---- API server (main.py)
    responses,          \* HTTP responses of /api/events, in request order
    last_request,       \* the batch of the latest /api/events request
    background_tasks,   \* BackgroundTasks: insert_events calls not yet run
    last_call,          \* what the latest insert_events call did
    events,             \* analytics.events (fed through events_buffer)
    user_profiles,      \* analytics.user_profiles, rows in insertion order
    identify_call,      \* the latest identify_user call and its outcome
    \* ---- Google Ads sync (google_ads_sync.py)
    sched,              \* where main() is: "start", "loop" or "dead"
    due,                \* the scheduled jobs whose time has come
    runs,               \* scheduled jobs started so far
    job,                \* per job: the locals of its run in progress
    google_ads_performance, \* analytics.google_ads_performance
    attribution_results,    \* result_rows of the latest reconciliation query
    attribution_summary,    \* analytics.attribution_summary, rows as inserted
    now,                    \* the clock behind now64()
    data_quality_log,       \* analytics.data_quality_log, rows as inserted
    audit,                  \* the locals of run_data_quality_checks
    \* ---- pure functions applied to drawn inputs
    ip_check,           \* an address and what validate_ip_address made of it
    fetched             \* a GoogleAdsRow and the row _fetch_campaign_performance built

vars == <<responses, last_request, background_tasks, last_call, events,
          user_profiles, identify_call,
          sched, due, runs, job, google_ads_performance,
          attribution_results, attribution_summary, now,
          data_quality_log, audit, ip_check, fetched>>

apiVars == <<responses, last_request, background_tasks, last_call>>

storeVars == <<events, user_profiles, identify_call>>

syncVars == <<sched, due, runs, job, google_ads_performance>>

reconVars == <<attribution_results, attribution_summary, now>>

qualityVars == <<data_quality_log, audit>>

pureVars == <<ip_check, fetched>>

auxVars == <<reconVars, qualityVars, pureVars>>

----------------------------------------------------------------------------
(* Bounds of the model.                                                    *)

\* Longest batch of one /api/events request.
MaxBatch == 2
\* Number of /api/events requests.
MaxCalls == 1
\* Number of /api/identify requests.
MaxIdentify == 2
\* Most rows one account's fetch returns.
MaxRows == 1
\* Number of scheduled jobs run after the initial sync.
MaxRuns == 2
\* Most rows the performance table and the events table hold together.
MaxTableRows == 3
\* Number of reconciliation runs.
MaxReconciles == 2
\* Most dot-separated parts of an address.
MaxParts == 4

\* Program constants.
UserAgentMax == 1000
BatchMaxItems == 1000

----------------------------------------------------------------------------
(* DataCleaner                                                             *)

Min(a, b) == IF a < b THEN a ELSE b

\* ord(char) >= 32 or char in '\t\n\r'
KeptChar(c) == c # "NUL"

Whitespace == {" ", "TAB", "LF", "CR"}

RECURSIVE LStrip(_)
LStrip(s) == IF s # <<>> /\ Head(s) \in Whitespace THEN LStrip(Tail(s)) ELSE s

RECURSIVE RStrip(_)
RStrip(s) ==
    IF s # <<>> /\ s[Len(s)] \in Whitespace
    THEN RStrip(SubSeq(s, 1, Len(s) - 1))
    ELSE s

\* str.strip()
Strip(s) == RStrip(LStrip(s))

\* DataCleaner.clean_string
clean_string(value, max_length) ==
    IF value = <<>>
    THEN <<>>
    ELSE LET cleaned == SelectSeq(value, KeptChar)
         IN  Strip(SubSeq(cleaned, 1, Min(Len(cleaned), max_length)))

\* str.lower(), on the letters the model's user agents use
LowerChar(c) ==
    CASE c = "B" -> "b"
      [] c = "M" -> "m"
      [] c = "O" -> "o"
      [] c = "T" -> "t"
      [] OTHER -> c

Lower(s) == [i \in 1..Len(s) |-> LowerChar(s[i])]

\* indicator in user_agent_lower
Contains(s, sub) ==
    \E i \in 1..(Len(s) - Len(sub) + 1) : SubSeq(s, i, i + Len(sub) - 1) = sub

bot_indicators ==
    { <<"b","o","t">>,
      <<"c","r","a","w","l","e","r">>,
      <<"s","p","i","d","e","r">>,
      <<"s","c","r","a","p","e","r">>,
      <<"c","u","r","l">>,
      <<"w","g","e","t">>,
      <<"p","y","t","h","o","n","-","r","e","q","u","e","s","t","s">>,
      <<"j","a","v","a","/">>,
      <<"g","o","-","h","t","t","p","-","c","l","i","e","n","t">> }

\* DataCleaner.detect_bot_traffic
detect_bot_traffic(user_agent) ==
    IF user_agent = <<>>
    THEN FALSE
    ELSE \E indicator \in bot_indicators : Contains(Lower(user_agent), indicator)

\* str.encode() raises UnicodeEncodeError on a lone surrogate
EncodeRaises(s) == \E i \in 1..Len(s) : s[i] = "SURR"

\* DataCleaner.generate_device_fingerprint raises when
\* f"{user_agent}:{ip}".encode() does; otherwise it returns a digest (or '')
FingerprintRaises(user_agent, ip) ==
    IF user_agent = <<>> /\ ip = <<>>
    THEN FALSE
    ELSE EncodeRaises(user_agent) \/ EncodeRaises(ip)

----------------------------------------------------------------------------
(* EventData and the batches a client can submit                           *)

UA_Browser == <<"M","o","z">>
UA_Bot == <<"B","o","t">>
\* "b\x00ot": no indicator in the submitted text, "bot" once cleaned
UA_Split == <<"b","NUL","o","t">>
\* "\ud800": accepted by the schema, not encodable
UA_Surrogate == <<"SURR">>

\* event_time in whole days relative to the current UTC day: 0 is today.
\* EventData.validate_event_time: raises when v is after 23:59:59 of today;
\* an event more than 7 days old is only logged.
validate_event_time(v) == ~(v > 0)

\* The event kinds of the ingestion model (every other field at its default;
\* device_fingerprint is absent, so _clean_event derives it).
IngestKinds ==
    { [event_time |-> 0,  user_agent |-> UA_Browser,   anonymous_id |-> "a1", user_id |-> ""],
      [event_time |-> 0,  user_agent |-> UA_Bot,       anonymous_id |-> "a1", user_id |-> ""],
      [event_time |-> 0,  user_agent |-> UA_Split,     anonymous_id |-> "a1", user_id |-> ""],
      [event_time |-> 0,  user_agent |-> UA_Surrogate, anonymous_id |-> "a1", user_id |-> ""],
      [event_time |-> -8, user_agent |-> UA_Browser,   anonymous_id |-> "a1", user_id |-> ""],
      [event_time |-> 30, user_agent |-> UA_Browser,   anonymous_id |-> "a1", user_id |-> ""] }

\* An EventData: event i of a batch carries event_id i.
EventData(i, k) ==
    [event_id |-> i, event_time |-> k.event_time, user_agent |-> k.user_agent,
     ip_address |-> <<>>, device_fingerprint |-> <<>>,
     anonymous_id |-> k.anonymous_id, user_id |-> k.user_id]

\* EventBatch: 1..max_items events
Batches(kinds, maxLen) ==
    UNION { { [i \in 1..n |-> EventData(i, f[i])] : f \in [1..n -> kinds] } :
            n \in 1..Min(maxLen, BatchMaxItems) }

\* pydantic validation of the request body: every event's validators pass
BatchValid(batch) ==
    \A i \in 1..Len(batch) : validate_event_time(batch[i].event_time)

----------------------------------------------------------------------------
(* ClickHouseManager.insert_events                                         *)

\* _clean_event raises exactly when the fingerprint it derives cannot be
\* computed
CleanRaises(event) ==
    /\ event.device_fingerprint = <<>>
    /\ FingerprintRaises(event.user_agent, event.ip_address)

\* ClickHouseManager._clean_event (the columns the claims read)
clean_event(event) ==
    [event_id |-> event.event_id,
     event_time |-> event.event_time,
     user_id |-> event.user_id,
     anonymous_id |-> event.anonymous_id,
     user_agent |-> clean_string(event.user_agent, UserAgentMax),
     is_valid |-> 1,
     validation_errors |-> ""]

\* Mutant: a bot row keeps its validation_errors.
FlagBot_NoReason(row) ==
    IF detect_bot_traffic(row.user_agent)
    THEN [row EXCEPT !.is_valid = 0]
    ELSE row

\* the bot flag set in the loop of insert_events
FlagBot(row) ==
    IF detect_bot_traffic(row.user_agent)
    THEN [row EXCEPT !.is_valid = 0, !.validation_errors = "bot_traffic"]
    ELSE row

\* one pass of the loop body: the row appended to cleaned_events
CleanedRow(event) == FlagBot(clean_event(event))

\* Mutant: the try wraps the whole loop, so the first event that raises ends it.
CleanedEvents_AbortOnError(batch) ==
    LET firstBad == { i \in 1..Len(batch) : CleanRaises(batch[i]) }
        n == IF firstBad = {} THEN Len(batch)
             ELSE (CHOOSE i \in firstBad : \A j \in firstBad : i <= j) - 1
    IN  [i \in 1..n |-> CleanedRow(batch[i])]

\* cleaned_events after the loop
CleanedEvents(batch) ==
    LET ok == SelectSeq(batch, LAMBDA e : ~CleanRaises(e))
    IN  [i \in 1..Len(ok) |-> CleanedRow(ok[i])]

\* validation_errors after the loop
ValidationErrors(batch) ==
    LET bad == SelectSeq(batch, CleanRaises)
    IN  [i \in 1..Len(bad) |-> [event_id |-> bad[i].event_id, error |-> "UnicodeEncodeError"]]

NoCall ==
    [req |-> 0, batch |-> <<>>, handed |-> <<>>, n_writes |-> 0,
     write |-> "none", validation_errors |-> <<>>, raised |-> FALSE]

\* Mutant: a failed write is retried once and the error swallowed.
BulkWrite_Retry(task, cleaned, write_ok) ==
    /\ events' = events \o cleaned
    /\ last_call' = [req |-> task.req, batch |-> task.events, handed |-> cleaned,
                     n_writes |-> IF write_ok THEN 1 ELSE 2,
                     write |-> IF cleaned = <<>> THEN "none"
                               ELSE IF write_ok THEN "ok" ELSE "error",
                     validation_errors |-> ValidationErrors(task.events),
                     raised |-> FALSE]

\* The bulk write of insert_events: one client.insert of cleaned_events when
\* there are any; its exception is logged and re-raised.
BulkWrite(task, cleaned, write_ok) ==
    IF cleaned = <<>>
    THEN /\ events' = events
         /\ last_call' = [req |-> task.req, batch |-> task.events, handed |-> <<>>,
                          n_writes |-> 0, write |-> "none",
                          validation_errors |-> ValidationErrors(task.events),
                          raised |-> FALSE]
    ELSE IF write_ok
    THEN /\ events' = events \o cleaned
         /\ last_call' = [req |-> task.req, batch |-> task.events, handed |-> cleaned,
                          n_writes |-> 1, write |-> "ok",
                          validation_errors |-> ValidationErrors(task.events),
                          raised |-> FALSE]
    ELSE /\ events' = events
         /\ last_call' = [req |-> task.req, batch |-> task.events, handed |-> cleaned,
                          n_writes |-> 1, write |-> "error",
                          validation_errors |-> ValidationErrors(task.events),
                          raised |-> TRUE]

\* insert_events, run as a background task after the response was sent
InsertEvents ==
    \E i \in DOMAIN background_tasks, write_ok \in BOOLEAN :
        LET task == background_tasks[i]
        IN  /\ background_tasks' =
                   SubSeq(background_tasks, 1, i - 1)
                   \o SubSeq(background_tasks, i + 1, Len(background_tasks))
            /\ BulkWrite(task, CleanedEvents(task.events), write_ok)
            /\ UNCHANGED <<responses, last_request, user_profiles, identify_call>>
            /\ UNCHANGED <<syncVars, auxVars>>

----------------------------------------------------------------------------
(* POST /api/events                                                        *)

\* Mutant: the handler awaits insert_events and answers by its outcome.
CollectEventsOf_Sync(batch) ==
    /\ last_request' = batch
    /\ background_tasks' = background_tasks
    /\ IF BatchValid(batch)
       THEN \E write_ok \in BOOLEAN :
              /\ BulkWrite([req |-> Len(responses) + 1, events |-> batch],
                           CleanedEvents(batch), write_ok)
              /\ responses' =
                    Append(responses,
                           IF write_ok \/ CleanedEvents(batch) = <<>>
                           THEN [status |-> "accepted", events_count |-> Len(batch)]
                           ELSE [status |-> "500", events_count |-> 0])
       ELSE /\ responses' = Append(responses, [status |-> "422", events_count |-> 0])
            /\ UNCHANGED <<last_call, events>>
    /\ UNCHANGED <<user_profiles, identify_call>>

\* collect_events: the body is validated into an EventBatch (422 when a
\* validator raises), insert_events is queued and the acknowledgment returned.
CollectEventsOf(batch) ==
    /\ last_request' = batch
    /\ IF BatchValid(batch)
       THEN /\ background_tasks' =
                   Append(background_tasks, [req |-> Len(responses) + 1, events |-> batch])
            /\ responses' =
                   Append(responses, [status |-> "accepted", events_count |-> Len(batch)])
       ELSE /\ background_tasks' = background_tasks
            /\ responses' = Append(responses, [status |-> "422", events_count |-> 0])
    /\ UNCHANGED <<last_call, events, user_profiles, identify_call>>

CollectEvents ==
    /\ Len(responses) < MaxCalls
    /\ \E batch \in Batches(IngestKinds, MaxBatch) : CollectEventsOf(batch)
    /\ UNCHANGED <<syncVars, auxVars>>

----------------------------------------------------------------------------
(* ClickHouseManager.identify_user and POST /api/identify                  *)

UserIds == {"u1", "u2"}
AnonymousIds == {"a1", "a2"}

NoIdentify == [n |-> 0, user_id |-> "", anonymous_id |-> "", outcome |-> "none"]

\* INSERT INTO analytics.user_profiles (user_id, anonymous_ids, ...) VALUES (...)
InsertProfile(profiles, user_id, anonymous_id) ==
    Append(profiles, [user_id |-> user_id, anonymous_ids |-> <<anonymous_id>>])

\* Mutant: the UPDATE has no "AND user_id = ''".
UpdateUserId_Overwrite(table, user_id, anonymous_id) ==
    [i \in DOMAIN table |->
        IF table[i].anonymous_id = anonymous_id
        THEN [table[i] EXCEPT !.user_id = user_id]
        ELSE table[i]]

\* ALTER TABLE analytics.events UPDATE user_id = ... WHERE anonymous_id = ...
\* AND user_id = ''
UpdateUserId(table, user_id, anonymous_id) ==
    [i \in DOMAIN table |->
        IF table[i].anonymous_id = anonymous_id /\ table[i].user_id = ""
        THEN [table[i] EXCEPT !.user_id = user_id]
        ELSE table[i]]

\* identify_user: the two commands run in order; the first one that raises
\* ends the call (logged, re-raised, answered 500 by the endpoint).
IdentifyUserOf(user_id, anonymous_id, outcome) ==
    /\ identify_call' = [n |-> identify_call.n + 1, user_id |-> user_id,
                         anonymous_id |-> anonymous_id, outcome |-> outcome]
    /\ user_profiles' =
          IF outcome = "insert_raised"
          THEN user_profiles
          ELSE InsertProfile(user_profiles, user_id, anonymous_id)
    /\ events' =
          IF outcome = "ok"
          THEN UpdateUserId(events, user_id, anonymous_id)
          ELSE events
    /\ UNCHANGED apiVars

IdentifyUser ==
    /\ identify_call.n < MaxIdentify
    /\ \E user_id \in UserIds, anonymous_id \in AnonymousIds,
          outcome \in {"ok", "insert_raised", "update_raised"} :
            IdentifyUserOf(user_id, anonymous_id, outcome)
    /\ UNCHANGED <<syncVars, auxVars>>

\* The events stored before the identify calls: the rows of one accepted
\* batch of browser events, anonymous or already attributed to user u9.
IdentifyKinds ==
    { [event_time |-> 0, user_agent |-> UA_Browser, anonymous_id |-> a, user_id |-> u] :
        a \in AnonymousIds, u \in {"", "u9"} }

StoredTables ==
    { CleanedEvents(b) : b \in Batches(IdentifyKinds, MaxBatch) }

----------------------------------------------------------------------------
(* GoogleAdsSync and its scheduler loop                                    *)

\* GOOGLE_ADS_CUSTOMER_IDS, parsed by setup_connections
customer_ids == <<"111", "222">>

\* the initial run_full_sync of main(), and the two jobs it schedules
JobNames == {"initial_sync", "full_sync", "deep_sync"}
ScheduledJobs == {"full_sync", "deep_sync"}

\* run_full_sync (initial and every 6 hours) or sync_campaign_performance(30)
RunsFullSync(j) == j # "deep_sync"

IdleJob ==
    [pc |-> "idle", idx |-> 1, all_performance_data |-> <<>>,
     results |-> <<>>, inserts |-> <<>>, log |-> <<>>, error |-> ""]

SyncIdle ==
    /\ sched = "start"
    /\ due = {}
    /\ runs = 0
    /\ job = [j \in JobNames |-> IdleJob]
    /\ google_ads_performance = <<>>

\* a job is being executed
Running(j) == job[j].pc \in {"fetch", "insert", "attribution", "quality", "return"}

\* Mutant: jobs are started in threads of their own.
MainThreadFree_Threaded == TRUE

\* main() calls run_full_sync and schedule.run_pending() itself: a job starts
\* only when the one thread is inside no other job
MainThreadFree == \A j \in JobNames : ~Running(j)

\* the rows _fetch_campaign_performance returns for an account
PerformanceRows(customer_id, n) ==
    [k \in 1..n |-> [account_id |-> customer_id, keyword_id |-> k]]

\* _fetch_campaign_performance: the rows, or the exception it re-raises
FetchOutcomes(customer_id) ==
    { [raises |-> e, rows |-> <<>>] : e \in {"GoogleAdsException", "Exception"} }
    \cup { [raises |-> "", rows |-> PerformanceRows(customer_id, n)] : n \in 0..MaxRows }

\* Mutant: the steps of run_full_sync with the audit before the reconciliation.
StepAfter_AuditFirst(j, pc) ==
    CASE pc = "fetch" -> "insert"
      [] pc = "insert" -> IF RunsFullSync(j) THEN "quality" ELSE "return"
      [] pc = "quality" -> "attribution"
      [] OTHER -> "return"

\* the order of the steps: sync_campaign_performance (fetch loop, then the
\* bulk insert), then for run_full_sync sync_attribution_data and
\* run_data_quality_checks
StepAfter(j, pc) ==
    CASE pc = "fetch" -> "insert"
      [] pc = "insert" -> IF RunsFullSync(j) THEN "attribution" ELSE "return"
      [] pc = "attribution" -> "quality"
      [] OTHER -> "return"

\* the job moves on: to the next account, or past the loop
AfterAccount(j, r) ==
    IF r.idx = Len(customer_ids)
    THEN [r EXCEPT !.idx = @ + 1, !.pc = StepAfter(j, "fetch")]
    ELSE [r EXCEPT !.idx = @ + 1]

\* Mutant: an account's error ends the loop.
FetchFailed_Break(j, customer_id) ==
    [job[j] EXCEPT
        !.results = Append(@, [customer_id |-> customer_id, status |-> "error", rows |-> <<>>]),
        !.log = Append(@, "fetch"),
        !.pc = StepAfter(j, "fetch")]

\* except GoogleAdsException / except Exception in the loop: log, continue
FetchFailed(j, customer_id) ==
    AfterAccount(j,
        [job[j] EXCEPT
            !.results = Append(@, [customer_id |-> customer_id, status |-> "error", rows |-> <<>>]),
            !.log = Append(@, "fetch")])

\* all_performance_data.extend(performance_data)
FetchSucceeded(j, customer_id, rows) ==
    AfterAccount(j,
        [job[j] EXCEPT
            !.all_performance_data = @ \o rows,
            !.results = Append(@, [customer_id |-> customer_id, status |-> "ok", rows |-> rows]),
            !.log = Append(@, "fetch")])

\* main(): the initial sync.run_full_sync()
StartInitialSync ==
    /\ sched = "start"
    /\ MainThreadFree
    /\ sched' = "loop"
    /\ job' = [job EXCEPT !["initial_sync"] = [IdleJob EXCEPT !.pc = "fetch"]]
    /\ UNCHANGED <<due, runs, google_ads_performance>>
    /\ UNCHANGED <<apiVars, storeVars, auxVars>>

\* time passes: every(6).hours or every().day.at("02:00") comes due
Tick ==
    /\ sched # "dead"
    /\ \E j \in ScheduledJobs \ due :
          /\ runs + Cardinality(due) < MaxRuns
          /\ due' = due \cup {j}
    /\ UNCHANGED <<sched, runs, job, google_ads_performance>>
    /\ UNCHANGED <<apiVars, storeVars, auxVars>>

\* schedule.run_pending() in the while loop: a due job is called
RunPending ==
    /\ sched = "loop"
    /\ MainThreadFree
    /\ \E j \in due :
          /\ ~Running(j)
          /\ due' = due \ {j}
          /\ job' = [job EXCEPT ![j] = [IdleJob EXCEPT !.pc = "fetch"]]
    /\ runs' = runs + 1
    /\ UNCHANGED <<sched, google_ads_performance>>
    /\ UNCHANGED <<apiVars, storeVars, auxVars>>

\* one pass of the loop over self.customer_ids in sync_campaign_performance
FetchAccount ==
    /\ \E j \in JobNames :
          /\ job[j].pc = "fetch"
          /\ \E outcome \in FetchOutcomes(customer_ids[job[j].idx]) :
                job' = [job EXCEPT ![j] =
                          IF outcome.raises # ""
                          THEN FetchFailed(j, customer_ids[job[j].idx])
                          ELSE FetchSucceeded(j, customer_ids[job[j].idx], outcome.rows)]
    /\ UNCHANGED <<sched, due, runs, google_ads_performance>>
    /\ UNCHANGED <<apiVars, storeVars, auxVars>>

\* Mutant: the exception of a step is logged and the cycle goes on.
OnError_LogOnly(j, pc) == StepAfter(j, pc)

\* `except Exception: ... raise` in _insert_performance_data,
\* sync_campaign_performance, sync_attribution_data,
\* _store_attribution_results and run_full_sync: the exception of a step
\* leaves every function of the cycle
OnError(j, pc) == "raised"

\* Mutant: the bulk insert is issued whatever was fetched.
HasData_Always(all_performance_data) == TRUE

\* `if all_performance_data:` in sync_campaign_performance
HasData(all_performance_data) == all_performance_data # <<>>

\* the end of sync_campaign_performance: _insert_performance_data when there
\* is data (its exception is re-raised up to main(), which exits), a warning
\* otherwise
InsertPerformance ==
    /\ \E j \in JobNames, insert_ok \in BOOLEAN :
          /\ job[j].pc = "insert"
          /\ LET data == job[j].all_performance_data
             IN  IF ~HasData(data)
                 THEN /\ job' = [job EXCEPT ![j].pc = StepAfter(j, "insert"),
                                            ![j].log = Append(@, "no_data")]
                      /\ UNCHANGED <<google_ads_performance, sched>>
                 ELSE IF insert_ok
                 THEN /\ google_ads_performance' = google_ads_performance \o data
                      /\ job' = [job EXCEPT
                                   ![j].pc = StepAfter(j, "insert"),
                                   ![j].inserts = Append(@, [rows |-> data, ok |-> TRUE]),
                                   ![j].log = Append(@, "insert")]
                      /\ UNCHANGED sched
                 ELSE /\ job' = [job EXCEPT
                                   ![j].pc = OnError(j, "insert"),
                                   ![j].error = "insert",
                                   ![j].inserts = Append(@, [rows |-> data, ok |-> FALSE]),
                                   ![j].log = Append(@, "insert")]
                      /\ sched' = "dead"
                      /\ UNCHANGED google_ads_performance
    /\ UNCHANGED <<due, runs>>
    /\ UNCHANGED <<apiVars, storeVars, auxVars>>

\* sync_attribution_data: the reconciliation query over the performance
\* table and the write of its result; an exception is re-raised up to main()
SyncAttribution ==
    /\ \E j \in JobNames, query_ok \in BOOLEAN :
          /\ job[j].pc = "attribution"
          /\ IF query_ok
             THEN /\ job' = [job EXCEPT ![j].pc = StepAfter(j, "attribution"),
                                        ![j].log = Append(@, "attribution")]
                  /\ UNCHANGED sched
             ELSE /\ job' = [job EXCEPT ![j].pc = OnError(j, "attribution"),
                                        ![j].error = "attribution",
                                        ![j].log = Append(@, "attribution")]
                  /\ sched' = "dead"
    /\ UNCHANGED <<due, runs, google_ads_performance>>
    /\ UNCHANGED <<apiVars, storeVars, auxVars>>

\* run_data_quality_checks: every exception is caught and logged
RunQualityChecks ==
    /\ \E j \in JobNames :
          /\ job[j].pc = "quality"
          /\ job' = [job EXCEPT ![j].pc = StepAfter(j, "quality"),
                                ![j].log = Append(@, "quality")]
    /\ UNCHANGED <<sched, due, runs, google_ads_performance>>
    /\ UNCHANGED <<apiVars, storeVars, auxVars>>

\* the job returns to main(): its locals are gone
ReturnFromJob ==
    /\ \E j \in JobNames :
          /\ job[j].pc = "return"
          /\ job' = [job EXCEPT ![j] = IdleJob]
    /\ UNCHANGED <<sched, due, runs, google_ads_performance>>
    /\ UNCHANGED <<apiVars, storeVars, auxVars>>

----------------------------------------------------------------------------
(* GoogleAdsSync.sync_attribution_data: the reconciliation query            *)
(*                                                                         *)
(* Dates are day numbers (the Date type: days since 1970-01-01), money is  *)
(* in cents, a ratio is kept as the fraction num/den the query divides.    *)
(* The client is created without settings (setup_connections), so the join *)
(* runs with join_use_nulls = 0: the columns of the side a joined row has  *)
(* no match on hold the default value of their type and are never NULL.    *)

\* today()
Today == 100

\* `today() - 30` in both CTEs
LookbackDays == 30

\* the value a Date column takes on the unmatched side of the join
DefaultDate == 0

\* rows of analytics.google_ads_performance, by the columns the query reads
AdPool ==
    { [date |-> Today, campaign_name |-> "brand", clicks |-> 10, cost |-> 2000],
      [date |-> Today, campaign_name |-> "generic", clicks |-> 5, cost |-> 0],
      [date |-> Today - 1, campaign_name |-> "generic", clicks |-> 3, cost |-> 1500],
      [date |-> Today - 31, campaign_name |-> "brand", clicks |-> 7, cost |-> 900] }

SiteEvent(day, source, medium, campaign, user, type, rev, valid) ==
    [event_date |-> day, utm_source |-> source, utm_medium |-> medium,
     utm_campaign |-> campaign, user_id |-> user, event_type |-> type,
     revenue |-> rev, is_valid |-> valid]

\* rows of analytics.events, by the columns the query reads
SitePool ==
    { SiteEvent(Today, "google", "cpc", "brand", "u1", "purchase", 5000, 1),
      SiteEvent(Today, "google", "cpc", "brand", "u2", "page_view", 0, 1),
      SiteEvent(Today, "google", "cpc", "brand", "u2", "purchase", 5000, 0),
      SiteEvent(Today, "google", "cpc", "generic", "u1", "purchase", 0, 1),
      SiteEvent(Today - 1, "google", "cpc", "generic", "u2", "purchase", 3000, 1),
      SiteEvent(Today, "facebook", "cpc", "brand", "u1", "purchase", 1000, 1),
      SiteEvent(Today, "google", "organic", "brand", "u1", "purchase", 1000, 1),
      SiteEvent(Today, "google", "cpc", "", "u1", "purchase", 1000, 1),
      SiteEvent(Today - 31, "google", "cpc", "brand", "u1", "purchase", 1000, 1) }

BoundedSeq(S, n) == UNION { [1..k -> S] : k \in 0..n }

\* sum(f) over the rows I of a group
RECURSIVE SumOf(_, _)
SumOf(f, I) ==
    IF I = {}
    THEN 0
    ELSE LET i == CHOOSE x \in I : TRUE
         IN  f[i] + SumOf(f, I \ {i})

InWindow(day) == day >= Today - LookbackDays

\* CTE google_ads_clicks: one row per (date, campaign_name) of the window
google_ads_clicks(perf) ==
    LET rows == { i \in DOMAIN perf : InWindow(perf[i].date) }
        group(d, c) == { i \in rows : perf[i].date = d /\ perf[i].campaign_name = c }
    IN  { [date |-> perf[i].date,
           campaign_name |-> perf[i].campaign_name,
           ad_clicks |-> SumOf([k \in DOMAIN perf |-> perf[k].clicks],
                               group(perf[i].date, perf[i].campaign_name)),
           ad_spend |-> SumOf([k \in DOMAIN perf |-> perf[k].cost],
                              group(perf[i].date, perf[i].campaign_name))]
          : i \in rows }

\* Mutant: the site side counts the rows flagged invalid as well.
SiteFilter_AnyValidity(e) ==
    /\ InWindow(e.event_date)
    /\ e.utm_source = "google"
    /\ e.utm_medium = "cpc"
    /\ e.utm_campaign # ""

\* WHERE of the CTE website_conversions
SiteFilter(e) ==
    /\ InWindow(e.event_date)
    /\ e.utm_source = "google"
    /\ e.utm_medium = "cpc"
    /\ e.utm_campaign # ""
    /\ e.is_valid = 1

\* CTE website_conversions: one row per (date, campaign_name)
website_conversions(ev) ==
    LET rows == { i \in DOMAIN ev : SiteFilter(ev[i]) }
        group(d, c) == { i \in rows : ev[i].event_date = d /\ ev[i].utm_campaign = c }
    IN  { [date |-> ev[i].event_date,
           campaign_name |-> ev[i].utm_campaign,
           unique_users |->
               Cardinality({ ev[k].user_id : k \in group(ev[i].event_date, ev[i].utm_campaign) }),
           website_revenue |-> SumOf([k \in DOMAIN ev |-> ev[k].revenue],
                                     group(ev[i].event_date, ev[i].utm_campaign)),
           conversions |->
               Cardinality({ k \in group(ev[i].event_date, ev[i].utm_campaign) :
                               ev[k].event_type = "purchase" })]
          : i \in rows }

\* the columns of a side that has no match: the defaults of their types
DefaultGac == [date |-> DefaultDate, campaign_name |-> "", ad_clicks |-> 0, ad_spend |-> 0]

DefaultWc ==
    [date |-> DefaultDate, campaign_name |-> "", unique_users |-> 0,
     website_revenue |-> 0, conversions |-> 0]

\* ON gac.date = wc.date AND gac.campaign_name = wc.campaign_name
JoinOn(gac, wc) == gac.date = wc.date /\ gac.campaign_name = wc.campaign_name

\* google_ads_clicks gac FULL OUTER JOIN website_conversions wc
FullOuterJoin(gacs, wcs) ==
    { p \in [gac : gacs, wc : wcs] : JoinOn(p.gac, p.wc) }
    \cup { [gac |-> g, wc |-> DefaultWc] : g \in { x \in gacs : \A w \in wcs : ~JoinOn(x, w) } }
    \cup { [gac |-> DefaultGac, wc |-> w] : w \in { x \in wcs : \A g \in gacs : ~JoinOn(g, x) } }

\* WHERE gac.ad_spend > 0 OR wc.website_revenue > 0
JoinWhere(p) == p.gac.ad_spend > 0 \/ p.wc.website_revenue > 0

\* coalesce(a, b): the first argument that is not NULL; a, a column of the
\* join, is not Nullable
coalesce(a, b) == a

Zero == [num |-> 0, den |-> 1]

\* a / b; with b = 0 the quotient is not a number
Divide(a, b) == [num |-> a, den |-> b]

\* Mutant: the return ratio is divided without the guard.
roas_Unguarded(gac, wc) == Divide(wc.website_revenue, gac.ad_spend)

\* if(gac.ad_spend > 0, wc.website_revenue / gac.ad_spend, 0)
roas(gac, wc) == IF gac.ad_spend > 0 THEN Divide(wc.website_revenue, gac.ad_spend) ELSE Zero

\* if(wc.conversions > 0, gac.ad_spend / wc.conversions, 0)
cost_per_conversion(gac, wc) ==
    IF wc.conversions > 0 THEN Divide(gac.ad_spend, wc.conversions) ELSE Zero

\* if(gac.ad_clicks > 0, wc.unique_users / gac.ad_clicks * 100, 0)
click_to_visit_rate(gac, wc) ==
    IF gac.ad_clicks > 0 THEN Divide(wc.unique_users * 100, gac.ad_clicks) ELSE Zero

\* the SELECT list of the query
SelectRow(p) ==
    [date |-> coalesce(p.gac.date, p.wc.date),
     campaign_name |-> coalesce(p.gac.campaign_name, p.wc.campaign_name),
     ad_clicks |-> coalesce(p.gac.ad_clicks, 0),
     ad_spend |-> coalesce(p.gac.ad_spend, 0),
     website_users |-> coalesce(p.wc.unique_users, 0),
     website_revenue |-> coalesce(p.wc.website_revenue, 0),
     website_conversions |-> coalesce(p.wc.conversions, 0),
     roas |-> roas(p.gac, p.wc),
     cost_per_conversion |-> cost_per_conversion(p.gac, p.wc),
     click_to_visit_rate |-> click_to_visit_rate(p.gac, p.wc)]

\* a < b for two ratios with positive denominators
RatioLess(a, b) == a.num * b.den < b.num * a.den

\* ORDER BY date DESC, roas DESC: row a may not come after row b
OrderedBefore(a, b) ==
    \/ a.date > b.date
    \/ a.date = b.date /\ ~RatioLess(a.roas, b.roas)

\* the joined rows the query returns
QueryRows(perf, ev) ==
    { p \in FullOuterJoin(google_ads_clicks(perf), website_conversions(ev)) : JoinWhere(p) }

\* result_rows of the query: the rows in an order the ORDER BY allows (rows
\* that tie on date and roas come in any order)
AttributionResults(perf, ev) ==
    LET ps == QueryRows(perf, ev)
        n == Cardinality(ps)
    IN  { [i \in 1..n |-> SelectRow(f[i])] :
            f \in { g \in [1..n -> ps] :
                      /\ \A i, k \in 1..n : i # k => g[i] # g[k]
                      /\ \A i, k \in 1..n : i < k =>
                            OrderedBefore(SelectRow(g[i]), SelectRow(g[k])) } }

\* ORDER BY (date, campaign_name) of analytics.attribution_summary
SummaryKey(row) == <<row.date, row.campaign_name>>

\* ReplacingMergeTree(sync_timestamp): row i is replaced by a row of the same
\* sorting key with a higher version, or with the same version inserted later
Superseded(table, i) ==
    \E k \in DOMAIN table :
        /\ SummaryKey(table[k]) = SummaryKey(table[i])
        /\ \/ table[k].sync_timestamp > table[i].sync_timestamp
           \/ table[k].sync_timestamp = table[i].sync_timestamp /\ k > i

\* the rows of the summary that count (what a merge leaves, what FINAL reads)
Effective(table) == { table[i] : i \in { k \in DOMAIN table : ~Superseded(table, k) } }

RECURSIVE Merged(_, _)
Merged(table, i) ==
    IF i > Len(table)
    THEN <<>>
    ELSE (IF Superseded(table, i) THEN <<>> ELSE <<table[i]>>) \o Merged(table, i + 1)

\* _store_attribution_results: the rows as inserted, sync_timestamp DEFAULT now64()
StoredRows(results, ts) ==
    [i \in DOMAIN results |->
        [date |-> results[i].date,
         campaign_name |-> results[i].campaign_name,
         ad_clicks |-> results[i].ad_clicks,
         ad_spend |-> results[i].ad_spend,
         website_users |-> results[i].website_users,
         website_revenue |-> results[i].website_revenue,
         website_conversions |-> results[i].website_conversions,
         roas |-> results[i].roas,
         cost_per_conversion |-> results[i].cost_per_conversion,
         click_to_visit_rate |-> results[i].click_to_visit_rate,
         sync_timestamp |-> ts]]

\* sync_attribution_data: the query, then _store_attribution_results
SyncAttributionData ==
    /\ now < MaxReconciles
    /\ \E results \in AttributionResults(google_ads_performance, events) :
          /\ attribution_results' = results
          /\ attribution_summary' = attribution_summary \o StoredRows(results, now + 1)
    /\ now' = now + 1
    /\ UNCHANGED <<apiVars, storeVars, syncVars, qualityVars, pureVars>>

\* a background merge of analytics.attribution_summary
MergeParts ==
    /\ \E i \in DOMAIN attribution_summary : Superseded(attribution_summary, i)
    /\ attribution_summary' = Merged(attribution_summary, 1)
    /\ UNCHANGED <<attribution_results, now>>
    /\ UNCHANGED <<apiVars, storeVars, syncVars, qualityVars, pureVars>>

----------------------------------------------------------------------------
(* GoogleAdsSync.run_data_quality_checks                                   *)

\* the check_name of each entry of quality_checks, in order
quality_checks ==
    <<"missing_campaign_names", "zero_cost_with_clicks", "high_cost_per_click",
      "future_dates">>

\* `'medium' if result < 100 else 'high'`
HighSeverityFrom == 100

\* what a check's count query returns
IssueCounts == {0, 1, 99, 100}

\* what happens in one pass of the loop: the query raises, or returns a
\* count; with a count above 0, the insert of the issue row raises or not
CheckInputs ==
    { [query_raises |-> TRUE, result |-> 0, insert_raises |-> FALSE],
      [query_raises |-> FALSE, result |-> 0, insert_raises |-> FALSE] }
    \cup [query_raises : {FALSE}, result : IssueCounts \ {0}, insert_raises : BOOLEAN]

\* Mutant: a count of exactly 100 is still medium.
Severity_Inclusive(result) == IF result <= HighSeverityFrom THEN "medium" ELSE "high"

Severity(result) == IF result < HighSeverityFrom THEN "medium" ELSE "high"

\* the row inserted into analytics.data_quality_log
QualityIssue(check_name, result) ==
    [check_type |-> "google_ads_sync",
     table_name |-> "google_ads_performance",
     issue_type |-> check_name,
     issue_count |-> result,
     issue_details |-> [found |-> result, records_with |-> check_name],
     severity |-> Severity(result)]

\* rows written to analytics.data_quality_log by earlier runs
EarlierLogs == { <<>>, <<QualityIssue("future_dates", 1)>> }

\* the body of the inner try: the rows the log holds after the pass
CheckPass(log, check_name, in) ==
    IF in.query_raises
    THEN log
    ELSE IF in.result > 0 /\ ~in.insert_raises
    THEN Append(log, QualityIssue(check_name, in.result))
    ELSE log

\* Mutant: an exception of one check ends the audit.
NextCheck_AbortOnError(idx, in) ==
    IF in.query_raises \/ in.insert_raises THEN Len(quality_checks) + 1 ELSE idx + 1

\* `for check in quality_checks`, with the inner except that logs the error
\* of a check: the loop goes on to the next entry whatever happened
NextCheck(idx, in) == idx + 1

\* run_data_quality_checks is called
StartQualityChecks ==
    /\ audit.pc = "idle"
    /\ audit' = [audit EXCEPT !.pc = "checks"]
    /\ UNCHANGED data_quality_log
    /\ UNCHANGED <<apiVars, storeVars, syncVars, reconVars, pureVars>>

\* one pass of the loop over quality_checks
RunQualityCheck ==
    /\ audit.pc = "checks"
    /\ \E in \in CheckInputs :
          LET check_name == quality_checks[audit.idx]
              next == NextCheck(audit.idx, in)
          IN  /\ data_quality_log' = CheckPass(data_quality_log, check_name, in)
              /\ audit' = [audit EXCEPT
                             !.idx = next,
                             !.executed = Append(@, [check_name |-> check_name, in |-> in]),
                             !.pc = IF next > Len(quality_checks) THEN "done" ELSE "checks"]
    /\ UNCHANGED <<apiVars, storeVars, syncVars, reconVars, pureVars>>

----------------------------------------------------------------------------
(* DataCleaner.validate_ip_address                                         *)
(*                                                                         *)
(* An address is a sequence of one-character strings.                      *)

Digits == <<"0", "1", "2", "3", "4", "5", "6", "7", "8", "9">>

IsDigit(c) == \E i \in DOMAIN Digits : Digits[i] = c

DigitValue(c) == (CHOOSE i \in DOMAIN Digits : Digits[i] = c) - 1

\* the texts between the dots of the addresses tried
PartPool ==
    { <<"0">>, <<"2", "5", "5">>, <<"2", "5", "6">>, <<"+", "4">>, <<" ", "4">>,
      <<"-", "1">>, <<"a">>, <<>>, <<":", ":", "1">> }

\* '.'.join(parts)
RECURSIVE Join(_)
Join(parts) ==
    IF Len(parts) = 1
    THEN parts[1]
    ELSE parts[1] \o <<".">> \o Join(Tail(parts))

\* ip.split('.')
RECURSIVE Split(_)
Split(ip) ==
    IF \A i \in DOMAIN ip : ip[i] # "."
    THEN <<ip>>
    ELSE LET d == CHOOSE i \in DOMAIN ip :
                      ip[i] = "." /\ \A k \in 1..(i - 1) : ip[k] # "."
         IN  <<SubSeq(ip, 1, d - 1)>> \o Split(SubSeq(ip, d + 1, Len(ip)))

\* the digits of an int() literal: decimal digits, single underscores allowed
\* between two digits
IsDigitString(s) ==
    /\ s # <<>>
    /\ \A i \in DOMAIN s : IsDigit(s[i]) \/ s[i] = "_"
    /\ IsDigit(s[1]) /\ IsDigit(s[Len(s)])
    /\ \A i \in 1..(Len(s) - 1) : ~(s[i] = "_" /\ s[i + 1] = "_")

RECURSIVE DigitsValue(_, _)
DigitsValue(s, acc) ==
    IF s = <<>>
    THEN acc
    ELSE DigitsValue(Tail(s), IF Head(s) = "_" THEN acc ELSE acc * 10 + DigitValue(Head(s)))

\* how int(part) reads its argument: surrounding whitespace is dropped, then
\* an optional sign, then the digits
IntLiteral(part) ==
    LET t == Strip(part)
    IN  IF t # <<>> /\ Head(t) \in {"+", "-"}
        THEN [sign |-> IF Head(t) = "-" THEN 0 - 1 ELSE 1, digits |-> Tail(t)]
        ELSE [sign |-> 1, digits |-> t]

\* int(part) raises ValueError
IntRaises(part) == ~IsDigitString(IntLiteral(part).digits)

\* int(part)
int(part) == IntLiteral(part).sign * DigitsValue(IntLiteral(part).digits, 0)

ZeroIp == <<"0", ".", "0", ".", "0", ".", "0">>

\* the loop over parts inside the try: the first part that is not an int
\* (ValueError) or is out of range ends it with '0.0.0.0'
RECURSIVE CheckParts(_, _)
CheckParts(ip, parts) ==
    IF parts = <<>>
    THEN ip
    ELSE IF IntRaises(Head(parts))
    THEN ZeroIp
    ELSE IF ~(0 <= int(Head(parts)) /\ int(Head(parts)) <= 255)
    THEN ZeroIp
    ELSE CheckParts(ip, Tail(parts))

validate_ip_address(ip) ==
    IF ip = <<>> \/ ip = ZeroIp
    THEN ZeroIp
    ELSE IF Len(Split(ip)) # 4
    THEN ZeroIp
    ELSE CheckParts(ip, Split(ip))

\* the call DataCleaner.validate_ip_address(ip)
ValidateIpAddress ==
    /\ ~ip_check.called
    /\ ip_check' = [ip_check EXCEPT !.called = TRUE,
                                    !.result = validate_ip_address(ip_check.ip)]
    /\ UNCHANGED fetched
    /\ UNCHANGED <<apiVars, storeVars, syncVars, reconVars, qualityVars>>

----------------------------------------------------------------------------
(* GoogleAdsSync._fetch_campaign_performance: the metrics of a row         *)
(*                                                                         *)
(* A raw metric is null or a value. Micro amounts are integers; a raw ctr  *)
(* is a fraction counted in units of 1/CtrUnits. The row built holds cost  *)
(* and avg_cpc in hundredths (2 decimals) and ctr in ten-thousandths of a  *)
(* percent (4 decimals).                                                   *)

\* `/ 1000000`
MicrosPerUnit == 1000000

\* the unit raw ctr fractions are counted in
CtrUnits == 10000000

Null == [null |-> TRUE, value |-> 0]

Value(v) == [null |-> FALSE, value |-> v]

\* row.metrics.cost_micros and row.metrics.average_cpc
RawMicros == { Null, Value(0), Value(2500000), Value(19999), Value(5000), Value(1234567) }

\* row.metrics.ctr: 0, 0.0523, 0.0000005, 0.0000014, 0.1234567
RawCtrs == { Null, Value(0), Value(523000), Value(5), Value(14), Value(1234567) }

\* `metric or 0`
OrZero(raw) == IF raw.null THEN 0 ELSE raw.value

Abs(x) == IF x < 0 THEN 0 - x ELSE x

\* Mutant: the quotient is cut off, not rounded.
Round_Truncated(num, den) == { num \div den }

\* round(num / den): the integer nearest to the quotient; when the quotient
\* lies halfway, the float that stands for it lies on either side, and
\* round() goes to that side
Round(num, den) ==
    { q \in { num \div den, num \div den + 1 } : 2 * Abs(q * den - num) <= den }

\* round(float(micros or 0) / 1000000, 2), in hundredths
MicrosToUnits(raw) == Round(OrZero(raw) * 100, MicrosPerUnit)

\* round(float(ctr or 0) * 100, 4), in ten-thousandths of a percent: the
\* fraction raw / CtrUnits times 100 * 10000
CtrToPercent(raw) == Round(OrZero(raw), CtrUnits \div (100 * 10000))

\* one pass of `for row in results`: the dict appended to performance_data
FetchRow ==
    /\ ~fetched.called
    /\ \E cost \in MicrosToUnits(fetched.metrics.cost_micros),
          avg_cpc \in MicrosToUnits(fetched.metrics.average_cpc),
          ctr \in CtrToPercent(fetched.metrics.ctr) :
          fetched' = [fetched EXCEPT
                        !.called = TRUE,
                        !.row = [cost |-> cost, avg_cpc |-> avg_cpc, ctr |-> ctr]]
    /\ UNCHANGED ip_check
    /\ UNCHANGED <<apiVars, storeVars, syncVars, reconVars, qualityVars>>

----------------------------------------------------------------------------
(* Before any reconciliation, audit or pure-function call                  *)

NoAudit == [pc |-> "idle", idx |-> 1, executed |-> <<>>, raised |-> FALSE]

NoIpCheck == [called |-> FALSE, ip |-> <<>>, result |-> <<>>]

NoFetch ==
    [called |-> FALSE,
     metrics |-> [cost_micros |-> Null, average_cpc |-> Null, ctr |-> Null],
     row |-> [cost |-> 0, avg_cpc |-> 0, ctr |-> 0]]

AuxIdle ==
    /\ attribution_results = <<>>
    /\ attribution_summary = <<>>
    /\ now = 0
    /\ data_quality_log = <<>>
    /\ audit = NoAudit
    /\ ip_check = NoIpCheck
    /\ fetched = NoFetch

----------------------------------------------------------------------------
(* Specification of the ingestion path                                     *)

Init ==
    /\ responses = <<>>
    /\ last_request = <<>>
    /\ background_tasks = <<>>
    /\ last_call = NoCall
    /\ events = <<>>
    /\ user_profiles = <<>>
    /\ identify_call = NoIdentify
    /\ SyncIdle
    /\ AuxIdle

Next == CollectEvents \/ InsertEvents

Spec == Init /\ [][Next]_vars

----------------------------------------------------------------------------
(* Specification of identity resolution over stored events                 *)

InitIdentify ==
    /\ responses = <<>>
    /\ last_request = <<>>
    /\ background_tasks = <<>>
    /\ last_call = NoCall
    /\ events \in StoredTables
    /\ user_profiles = <<>>
    /\ identify_call = NoIdentify
    /\ SyncIdle
    /\ AuxIdle

NextIdentify == IdentifyUser

SpecIdentify == InitIdentify /\ [][NextIdentify]_vars

----------------------------------------------------------------------------
(* Specification of the sync process                                       *)

InitSync == Init

NextSync ==
    \/ StartInitialSync
    \/ Tick
    \/ RunPending
    \/ FetchAccount
    \/ InsertPerformance
    \/ SyncAttribution
    \/ RunQualityChecks
    \/ ReturnFromJob

SpecSync == InitSync /\ [][NextSync]_vars

----------------------------------------------------------------------------
(* Specification of the reconciliation over stored tables                  *)

InitAttribution ==
    /\ responses = <<>>
    /\ last_request = <<>>
    /\ background_tasks = <<>>
    /\ last_call = NoCall
    /\ user_profiles = <<>>
    /\ identify_call = NoIdentify
    /\ sched = "loop"
    /\ due = {}
    /\ runs = 0
    /\ job = [j \in JobNames |-> IdleJob]
    /\ google_ads_performance \in BoundedSeq(AdPool, MaxTableRows)
    /\ events \in BoundedSeq(SitePool, MaxTableRows - Len(google_ads_performance))
    /\ AuxIdle

NextAttribution == SyncAttributionData \/ MergeParts

SpecAttribution == InitAttribution /\ [][NextAttribution]_vars

----------------------------------------------------------------------------
(* Specification of the audit of the performance table                     *)

InitQuality ==
    /\ responses = <<>>
    /\ last_request = <<>>
    /\ background_tasks = <<>>
    /\ last_call = NoCall
    /\ events = <<>>
    /\ user_profiles = <<>>
    /\ identify_call = NoIdentify
    /\ sched = "loop"
    /\ due = {}
    /\ runs = 0
    /\ job = [j \in JobNames |-> IdleJob]
    /\ google_ads_performance = <<>>
    /\ attribution_results = <<>>
    /\ attribution_summary = <<>>
    /\ now = 0
    /\ data_quality_log \in EarlierLogs
    /\ audit = NoAudit
    /\ ip_check = NoIpCheck
    /\ fetched = NoFetch

NextQuality == StartQualityChecks \/ RunQualityCheck

SpecQuality == InitQuality /\ [][NextQuality]_vars

----------------------------------------------------------------------------
(* Specification of validate_ip_address over drawn addresses               *)

InitIp ==
    /\ responses = <<>>
    /\ last_request = <<>>
    /\ background_tasks = <<>>
    /\ last_call = NoCall
    /\ events = <<>>
    /\ user_profiles = <<>>
    /\ identify_call = NoIdentify
    /\ SyncIdle
    /\ attribution_results = <<>>
    /\ attribution_summary = <<>>
    /\ now = 0
    /\ data_quality_log = <<>>
    /\ audit = NoAudit
    /\ \E n \in 1..MaxParts : \E parts \in [1..n -> PartPool] :
          ip_check = [NoIpCheck EXCEPT !.ip = Join(parts)]
    /\ fetched = NoFetch

NextIp == ValidateIpAddress

SpecIp == InitIp /\ [][NextIp]_vars

----------------------------------------------------------------------------
(* Specification of the fetcher's unit conversion over drawn metrics       *)

InitFetch ==
    /\ responses = <<>>
    /\ last_request = <<>>
    /\ background_tasks = <<>>
    /\ last_call = NoCall
    /\ events = <<>>
    /\ user_profiles = <<>>
    /\ identify_call = NoIdentify
    /\ SyncIdle
    /\ attribution_results = <<>>
    /\ attribution_summary = <<>>
    /\ now = 0
    /\ data_quality_log = <<>>
    /\ audit = NoAudit
    /\ ip_check = NoIpCheck
    /\ \E metrics \in [cost_micros : RawMicros, average_cpc : RawMicros, ctr : RawCtrs] :
          fetched = [NoFetch EXCEPT !.metrics = metrics]

NextFetch == FetchRow

SpecFetch == InitFetch /\ [][NextFetch]_vars

----------------------------------------------------------------------------
(* Claims about the ingestion path                                         *)

\* a step in which an insert_events call ran
InsertRan == last_call' # last_call

\* an event the normalizer accepts: its validators pass and _clean_event returns
GoodEvent(e) == validate_event_time(e.event_time) /\ ~CleanRaises(e)

\* C1 (as claimed): once the latest batch, made of good events and of
\* business-rule rejections (event_time in the future), has been processed
\* without a storage failure, every good event is stored as its canonical row
\* and every rejected event is reported as exactly one (event_id, error) pair.
C1_BatchIsolation ==
    LET r == Len(responses)
        reported == IF last_call.req = r THEN last_call.validation_errors ELSE <<>>
    IN  ( /\ r > 0
          /\ background_tasks = <<>>
          /\ ~last_call.raised
          /\ \A i \in DOMAIN last_request : ~CleanRaises(last_request[i]) )
        => \A i \in DOMAIN last_request :
              IF GoodEvent(last_request[i])
              THEN \E j \in DOMAIN events : events[j] = CleanedRow(last_request[i])
              ELSE Cardinality({ j \in DOMAIN reported :
                                   reported[j].event_id = last_request[i].event_id }) = 1

\* the events of the call's batch are split between the rows handed to the
\* write and the rejection list, each once and in input order
Partitioned(call) ==
    /\ Len(call.handed) + Len(call.validation_errors) = Len(call.batch)
    /\ \A i \in DOMAIN call.batch :
          LET id == call.batch[i].event_id
              inHanded == { j \in DOMAIN call.handed : call.handed[j].event_id = id }
              inErrors == { j \in DOMAIN call.validation_errors :
                              call.validation_errors[j].event_id = id }
          IN  IF CleanRaises(call.batch[i])
              THEN Cardinality(inErrors) = 1 /\ inHanded = {}
              ELSE Cardinality(inHanded) = 1 /\ inErrors = {}
    /\ \A j, k \in DOMAIN call.handed :
          j < k => call.handed[j].event_id < call.handed[k].event_id

\* C2 (as claimed): every insert_events call performs exactly one bulk write,
\* of exactly the events whose normalization did not raise, the others being
\* in the rejection list.
C2_ExactlyOneWrite ==
    last_call.req # 0 => (last_call.n_writes = 1 /\ Partitioned(last_call))

\* C2 (amended): every insert_events call performs one bulk write when at
\* least one event normalized and none when every event raised; the write holds
\* exactly the events whose normalization did not raise, each once and in input
\* order, and every other event is in the rejection list.
C2_OneWriteOfNormalized ==
    last_call.req # 0 =>
        /\ Partitioned(last_call)
        /\ last_call.n_writes = (IF last_call.handed = <<>> THEN 0 ELSE 1)
        /\ (last_call.write = "none") = (last_call.handed = <<>>)

C2_Witness ==
    /\ last_call.req # 0
    /\ last_call.n_writes = 1
    /\ last_call.handed # <<>>
    /\ last_call.validation_errors # <<>>

\* C3: a step of insert_events whose bulk write raises ends with the error
\* raised to the caller, after one write attempt only, and leaves the events
\* table as it was.
C3_WriteFailureIsHard ==
    [][ (InsertRan /\ last_call'.write = "error")
          => (last_call'.raised /\ last_call'.n_writes = 1 /\ events' = events) ]_vars

C3_Witness ==
    last_call.write = "error" /\ last_call.raised /\ Len(last_call.handed) > 1

\* the row of the call that carries the event's id
RowOf(call, e) ==
    CHOOSE row \in { call.handed[j] : j \in DOMAIN call.handed } :
        row.event_id = e.event_id

SubmittedAgentIsBot(e) == detect_bot_traffic(e.user_agent)

CleanedAgentIsBot(e) == detect_bot_traffic(clean_string(e.user_agent, UserAgentMax))

\* every normalized event of the call is handed to the write, flagged as a bot
\* exactly when its user agent (as cleaned, or as submitted) matches the denylist
BotRule(asCleaned) ==
    last_call.req # 0 =>
        \A i \in DOMAIN last_call.batch :
            LET e == last_call.batch[i]
                isBot == IF asCleaned THEN CleanedAgentIsBot(e) ELSE SubmittedAgentIsBot(e)
            IN  ~CleanRaises(e) =>
                  /\ \E j \in DOMAIN last_call.handed :
                        last_call.handed[j].event_id = e.event_id
                  /\ IF isBot
                     THEN /\ RowOf(last_call, e).is_valid = 0
                          /\ RowOf(last_call, e).validation_errors = "bot_traffic"
                     ELSE /\ RowOf(last_call, e).is_valid = 1
                          /\ RowOf(last_call, e).validation_errors = ""

C5_AckBeforeWrite ==
    [][ /\ \A r \in DOMAIN responses :
              r \in DOMAIN responses' /\ responses'[r] = responses[r]
        /\ InsertRan =>
              /\ last_call'.req \in DOMAIN responses
              /\ responses[last_call'.req] =
                    [status |-> "accepted", events_count |-> Len(last_call'.batch)] ]_vars

C5_Witness ==
    /\ last_call.write = "error"
    /\ last_call.req \in DOMAIN responses
    /\ responses[last_call.req].status = "accepted"
    /\ responses[last_call.req].events_count = Len(last_call.batch)

----------------------------------------------------------------------------
(* Claims about identity resolution                                        *)

C7_IdempotentUpsert ==
    \A i, j \in DOMAIN user_profiles :
        ( /\ i # j
          /\ user_profiles[i].user_id = user_profiles[j].user_id )
        => \A m \in DOMAIN user_profiles[i].anonymous_ids,
              n \in DOMAIN user_profiles[j].anonymous_ids :
                user_profiles[i].anonymous_ids[m] # user_profiles[j].anonymous_ids[n]

----------------------------------------------------------------------------
(* Claims about the sync process                                           *)

\* the rows of the accounts whose fetch returned, in account order
RECURSIVE FetchedRows(_)
FetchedRows(results) ==
    IF results = <<>>
    THEN <<>>
    ELSE (IF Head(results).status = "ok" THEN Head(results).rows ELSE <<>>)
         \o FetchedRows(Tail(results))

\* every configured account has been attempted, in order
AllAttempted(r) ==
    /\ Len(r.results) = Len(customer_ids)
    /\ \A i \in DOMAIN r.results : r.results[i].customer_id = customer_ids[i]

\* the job is past the bulk insert of sync_campaign_performance
PastInsert(r) ==
    \/ r.pc \in {"attribution", "quality", "return"}
    \/ r.pc = "raised"

\* C8: once sync_campaign_performance is over, every account was attempted,
\* no fetch error was raised out of it, and its bulk inserts are none when no
\* row was fetched and otherwise one, of exactly the rows of the accounts whose
\* fetch returned.
C8_FetchFailuresIsolated ==
    \A j \in JobNames :
        PastInsert(job[j]) =>
            /\ AllAttempted(job[j])
            /\ job[j].error \in {"", "insert", "attribution"}
            /\ (job[j].error = "insert") =
                 (job[j].inserts # <<>> /\ ~job[j].inserts[1].ok)
            /\ Len(job[j].inserts) =
                 (IF FetchedRows(job[j].results) = <<>> THEN 0 ELSE 1)
            /\ \A k \in DOMAIN job[j].inserts :
                 job[j].inserts[k].rows = FetchedRows(job[j].results)

C8_Witness ==
    \E j \in JobNames :
        /\ job[j].pc \in {"attribution", "return"}
        /\ job[j].results[1].status = "error"
        /\ job[j].results[2].status = "ok"
        /\ job[j].results[2].rows # <<>>
        /\ job[j].inserts = <<[rows |-> job[j].results[2].rows, ok |-> TRUE]>>
        /\ google_ads_performance # <<>>

\* the job takes the named step
StepTaken(j, name) == job'[j].log = Append(job[j].log, name)

\* rows is a run of consecutive rows of table
StoredRun(table, rows) ==
    \E a \in 0..(Len(table) - Len(rows)) : SubSeq(table, a + 1, a + Len(rows)) = rows

\* C9: the reconciliation step is taken only when every account of the cycle
\* has been attempted, the cycle's bulk insert (if any row was fetched) has
\* succeeded and is in the performance table, and no fetch or performance write
\* is in progress; the audit step is taken only after the reconciliation.
C9_ReconcileAfterFetches ==
    [][ \A j \in JobNames :
          /\ StepTaken(j, "attribution") =>
                /\ AllAttempted(job[j])
                /\ FetchedRows(job[j].results) # <<>> =>
                      /\ job[j].inserts =
                           <<[rows |-> FetchedRows(job[j].results), ok |-> TRUE]>>
                      /\ StoredRun(google_ads_performance, FetchedRows(job[j].results))
                /\ \A k \in JobNames : job[k].pc \notin {"fetch", "insert"}
          /\ StepTaken(j, "quality") =>
                /\ \E i \in DOMAIN job[j].log : job[j].log[i] = "attribution"
                /\ job[j].error = "" ]_vars

C9_Witness ==
    \E j \in JobNames :
        /\ job[j].log = <<"fetch", "fetch", "insert", "attribution", "quality">>
        /\ \E i \in DOMAIN job[j].results : job[j].results[i].status = "error"

\* C10: at most one of the initial sync, the 6-hourly full sync and the daily
\* deep-lookback sync is being executed.
C10_OneJobAtATime == Cardinality({ j \in JobNames : Running(j) }) <= 1

\* a scheduled job has come due while the initial sync is still fetching
C10_Witness ==
    /\ job["initial_sync"].pc = "fetch"
    /\ due # {}
    /\ \A j \in ScheduledJobs : ~Running(j)

\* the fetch of every configured account has failed
AllFailed(r) ==
    /\ AllAttempted(r)
    /\ \A i \in DOMAIN r.results : r.results[i].status = "error"

\* C11: when the fetch of every account has failed, the step that ends
\* sync_campaign_performance writes nothing to the performance table, logs
\* the no-data warning and raises nothing: main() stays alive and the cycle
\* moves on to the reconciliation (a deep-lookback sync returns); a full
\* cycle that logged the warning and was not stopped by the reconciliation
\* has run the reconciliation and then the audit.
C11_NoDataCycleGoesOn ==
    [][ \A j \in JobNames :
          /\ (job[j].pc = "insert" /\ AllFailed(job[j]) /\ job'[j] # job[j]) =>
                /\ StepTaken(j, "no_data")
                /\ job'[j].inserts = <<>>
                /\ job'[j].error = ""
                /\ google_ads_performance' = google_ads_performance
                /\ sched' = sched
                /\ job'[j].pc = (IF RunsFullSync(j) THEN "attribution" ELSE "return")
          /\ (job'[j].pc = "return" /\ RunsFullSync(j) /\ AllFailed(job'[j])) =>
                job'[j].log = <<"fetch", "fetch", "no_data", "attribution", "quality">>
      ]_vars

C11_Witness ==
    \E j \in JobNames :
        /\ RunsFullSync(j)
        /\ AllFailed(job[j])
        /\ job[j].pc = "return"
        /\ job[j].inserts = <<>>
        /\ job[j].log = <<"fetch", "fetch", "no_data", "attribution", "quality">>

----------------------------------------------------------------------------
(* Claims about the reconciliation                                         *)

\* the events table without its rows flagged invalid
RECURSIVE ValidOnly(_)
ValidOnly(ev) ==
    IF ev = <<>>
    THEN <<>>
    ELSE (IF Head(ev).is_valid = 0 THEN <<>> ELSE <<Head(ev)>>) \o ValidOnly(Tail(ev))

\* the valid Google paid-click events that name a campaign
RECURSIVE PaidClicksOnly(_)
PaidClicksOnly(ev) ==
    IF ev = <<>>
    THEN <<>>
    ELSE (IF /\ Head(ev).utm_source = "google"
             /\ Head(ev).utm_medium = "cpc"
             /\ Head(ev).utm_campaign # ""
             /\ Head(ev).is_valid = 1
          THEN <<Head(ev)>>
          ELSE <<>>) \o PaidClicksOnly(Tail(ev))

\* a row flagged invalid that is a Google paid-click event of a campaign, in
\* the window
InvalidPaidClick(e) ==
    /\ e.is_valid = 0
    /\ e.utm_source = "google" /\ e.utm_medium = "cpc" /\ e.utm_campaign # ""
    /\ e.event_date >= Today - LookbackDays

\* C12: the rows a reconciliation returns (site-side users, revenue and
\* conversions and the three ratios included) are rows the same query returns
\* over the events table with every is_valid = 0 row taken out: rows flagged
\* invalid change nothing of the result; and so are they over the valid
\* Google paid-click events that name a campaign alone.
C12_InvalidRowsNotCounted ==
    now > 0 =>
        /\ attribution_results \in
              AttributionResults(google_ads_performance, ValidOnly(events))
        /\ attribution_results \in
              AttributionResults(google_ads_performance, PaidClicksOnly(events))

\* a reconciliation has run over a table holding an invalid paid-click row of
\* a key that has valid revenue too
C12_Witness ==
    /\ now > 0
    /\ \E i, k \in DOMAIN events :
          /\ InvalidPaidClick(events[i])
          /\ events[k].is_valid = 1
          /\ events[k].utm_campaign = events[i].utm_campaign
          /\ events[k].event_date = events[i].event_date
          /\ \E r \in DOMAIN attribution_results :
                /\ attribution_results[r].website_revenue = events[k].revenue
                /\ attribution_results[r].website_revenue > 0
                /\ attribution_results[r].website_conversions = 1

\* the rows of the latest result that carry the key (d, c)
RowsWithKey(d, c) ==
    { i \in DOMAIN attribution_results :
        attribution_results[i].date = d /\ attribution_results[i].campaign_name = c }

\* C13: after a reconciliation, every (date, campaign) of the window with ad
\* spend and no site-side row has exactly one result row under that key, with
\* site users, revenue and conversions 0; and every (date, campaign) with a
\* site-side conversion and no ad row has exactly one result row under that
\* key, with ad clicks and ad spend 0.
C13_OuterJoinComplete ==
    now > 0 =>
        LET gacs == google_ads_clicks(google_ads_performance)
            wcs == website_conversions(events)
        IN  /\ \A g \in gacs :
                  (g.ad_spend > 0 /\ \A w \in wcs : ~JoinOn(g, w)) =>
                      /\ Cardinality(RowsWithKey(g.date, g.campaign_name)) = 1
                      /\ \A i \in RowsWithKey(g.date, g.campaign_name) :
                            /\ attribution_results[i].ad_spend = g.ad_spend
                            /\ attribution_results[i].website_users = 0
                            /\ attribution_results[i].website_revenue = 0
                            /\ attribution_results[i].website_conversions = 0
            /\ \A w \in wcs :
                  (w.conversions > 0 /\ \A g \in gacs : ~JoinOn(g, w)) =>
                      /\ Cardinality(RowsWithKey(w.date, w.campaign_name)) = 1
                      /\ \A i \in RowsWithKey(w.date, w.campaign_name) :
                            /\ attribution_results[i].website_conversions = w.conversions
                            /\ attribution_results[i].ad_clicks = 0
                            /\ attribution_results[i].ad_spend = 0

\* the ratio is the number a / b
IsQuotient(ratio, a, b) == ratio.den > 0 /\ ratio.num * b = a * ratio.den

\* the ratio is the number 0
IsZero(ratio) == ratio.den > 0 /\ ratio.num = 0

\* the three ratios of a row are the guarded quotients of the row's columns
GuardedRatios(r) ==
    /\ IF r.ad_spend > 0
       THEN IsQuotient(r.roas, r.website_revenue, r.ad_spend)
       ELSE IsZero(r.roas)
    /\ IF r.website_conversions > 0
       THEN IsQuotient(r.cost_per_conversion, r.ad_spend, r.website_conversions)
       ELSE IsZero(r.cost_per_conversion)
    /\ IF r.ad_clicks > 0
       THEN IsQuotient(r.click_to_visit_rate, r.website_users * 100, r.ad_clicks)
       ELSE IsZero(r.click_to_visit_rate)

\* C14: in every row a reconciliation returns and every row of the summary
\* table, roas is revenue / spend when spend > 0 and 0 otherwise,
\* cost_per_conversion is spend / conversions when conversions > 0 and 0
\* otherwise, click_to_visit_rate is users / clicks * 100 when clicks > 0 and
\* 0 otherwise; no ratio is a quotient by zero, and a run never ends without
\* its rows stored.
C14_GuardedRatios ==
    /\ \A i \in DOMAIN attribution_results : GuardedRatios(attribution_results[i])
    /\ \A i \in DOMAIN attribution_summary : GuardedRatios(attribution_summary[i])
    /\ now > 0 =>
          \A i \in DOMAIN attribution_results :
              \E k \in DOMAIN attribution_summary :
                  /\ attribution_summary[k].sync_timestamp = now
                  /\ attribution_summary[k].roas = attribution_results[i].roas
                  /\ SummaryKey(attribution_summary[k]) = SummaryKey(attribution_results[i])

\* a stored row of a key with revenue and no ad spend (no ad-side row at all),
\* and one with ad spend and no site-side row
C14_Witness ==
    /\ \E i \in DOMAIN attribution_summary :
          /\ attribution_summary[i].ad_spend = 0
          /\ attribution_summary[i].website_revenue = 5000
          /\ attribution_summary[i].roas = Zero
    /\ \E i \in DOMAIN attribution_summary :
          /\ attribution_summary[i].ad_spend > 0
          /\ attribution_summary[i].website_users = 0
          /\ attribution_summary[i].cost_per_conversion = Zero

\* a summary row without its version column
Unversioned(row) == [row EXCEPT !.sync_timestamp = 0]

\* what the dashboard reads of the summary: the rows that count, whatever
\* their version
EffectiveSummary(table) == { Unversioned(r) : r \in Effective(table) }

\* one effective row per key, which no row of its key outdates
OneEffectiveRowPerKey(table) ==
    /\ \A r1, r2 \in Effective(table) : SummaryKey(r1) = SummaryKey(r2) => r1 = r2
    /\ \A r \in Effective(table) :
          \A i \in DOMAIN table :
              SummaryKey(table[i]) = SummaryKey(r) =>
                  table[i].sync_timestamp <= r.sync_timestamp

\* C15: the summary holds at most one effective row per (date, campaign_name),
\* no row of that key has a later sync_timestamp than it, and a reconciliation
\* run after an earlier one, over the same tables, leaves the effective
\* summary as it was.
C15_IdempotentReplace ==
    [][ /\ OneEffectiveRowPerKey(attribution_summary')
        /\ (now > 0 /\ now' = now + 1) =>
              EffectiveSummary(attribution_summary') = EffectiveSummary(attribution_summary)
      ]_vars

----------------------------------------------------------------------------
(* Claims about the audit                                                  *)

\* the pass of the loop over check i raised an exception
CheckRaised(i) == audit.executed[i].in.query_raises \/ audit.executed[i].in.insert_raises

RECURSIVE IssuesOf(_)
\* the issue rows of the passes that found something and raised nothing
IssuesOf(executed) ==
    IF executed = <<>>
    THEN <<>>
    ELSE (IF /\ ~Head(executed).in.query_raises
             /\ ~Head(executed).in.insert_raises
             /\ Head(executed).in.result > 0
          THEN <<[issue_type |-> Head(executed).check_name,
                  issue_count |-> Head(executed).in.result]>>
          ELSE <<>>) \o IssuesOf(Tail(executed))

\* rows i+1.. of the log, by check name and count
RECURSIVE LogFrom(_, _)
LogFrom(log, i) ==
    IF i >= Len(log)
    THEN <<>>
    ELSE <<[issue_type |-> log[i + 1].issue_type,
            issue_count |-> log[i + 1].issue_count]>> \o LogFrom(log, i + 1)

\* C16: run_data_quality_checks never raises, and once it is over each of the
\* four checks has been executed once, in order, whichever of them raised; the
\* checks that raised nothing have their issue (when they found one) in the
\* log, in order, after the rows the log held before.
C16_ChecksIsolated ==
    /\ ~audit.raised
    /\ audit.pc = "done" =>
          /\ Len(audit.executed) = Len(quality_checks)
          /\ \A i \in DOMAIN audit.executed :
                audit.executed[i].check_name = quality_checks[i]
          /\ \E earlier \in EarlierLogs :
                /\ SubSeq(data_quality_log, 1, Len(earlier)) = earlier
                /\ LogFrom(data_quality_log, Len(earlier)) = IssuesOf(audit.executed)

\* the audit is over; the query of one check and the insert of another raised,
\* and a check after them recorded its issue
C16_Witness ==
    /\ audit.pc = "done"
    /\ audit.executed[1].in.query_raises
    /\ audit.executed[2].in.insert_raises
    /\ ~CheckRaised(3) /\ audit.executed[3].in.result > 0
    /\ ~CheckRaised(4) /\ audit.executed[4].in.result = 0
    /\ \E i \in DOMAIN data_quality_log :
          data_quality_log[i].issue_type = quality_checks[3]

\* The step is a pass of the loop: the log keeps the rows it had, and gains
\* one row exactly when the check's count is above 0 (and, with
\* unlessInsertRaised, the insert of the row did not raise); the row names
\* the check, carries the count, and is medium below 100 and high from 100.
IssueRule(unlessInsertRaised) ==
    /\ Len(data_quality_log') >= Len(data_quality_log)
    /\ SubSeq(data_quality_log', 1, Len(data_quality_log)) = data_quality_log
    /\ Len(audit'.executed) = Len(audit.executed) + 1 =>
          LET e == audit'.executed[Len(audit'.executed)]
              appended == Len(data_quality_log') = Len(data_quality_log) + 1
              issue == data_quality_log'[Len(data_quality_log')]
          IN  ~e.in.query_raises =>
                /\ appended =
                     (e.in.result > 0 /\ (unlessInsertRaised => ~e.in.insert_raises))
                /\ appended =>
                     /\ issue.issue_type = e.check_name
                     /\ issue.issue_count = e.in.result
                     /\ issue.severity = (IF e.in.result < 100 THEN "medium" ELSE "high")
                /\ ~appended => data_quality_log' = data_quality_log

\* C17 (as stated): for each check, an issue row is appended if and only if
\* the check's count is above 0; it carries the count and the check's name,
\* with severity medium below 100 and high otherwise; rows already in the
\* log are never changed or removed.
C17_IssueIffCountPositive == [][IssueRule(FALSE)]_vars

\* C17 (amended): for each check, an issue row is appended if and only if the
\* check's count is above 0 and the insert of the row does not raise; it
\* carries the count and the check's name, with severity medium below 100
\* and high otherwise; rows already in the log are never changed or removed.
C17_IssueIffCountPositiveAndStored == [][IssueRule(TRUE)]_vars

\* an audit over a log with an earlier row has recorded a medium issue of 99
\* and a high issue of 100, found nothing in one check, and lost one issue to
\* a failed insert
C17_Witness ==
    /\ audit.pc = "done"
    /\ Len(data_quality_log) = 3
    /\ data_quality_log[1] = QualityIssue("future_dates", 1)
    /\ data_quality_log[2].issue_count = 99 /\ data_quality_log[2].severity = "medium"
    /\ data_quality_log[3].issue_count = 100 /\ data_quality_log[3].severity = "high"
    /\ \E i \in DOMAIN audit.executed : audit.executed[i].in.insert_raises
    /\ \E i \in DOMAIN audit.executed :
          ~audit.executed[i].in.query_raises /\ audit.executed[i].in.result = 0

----------------------------------------------------------------------------
(* Claims about the pure functions                                         *)

\* the text is one to three decimal digits that read as a number in [0,255]
IsOctet(part) ==
    /\ Len(part) \in 1..3
    /\ \A i \in DOMAIN part : IsDigit(part[i])
    /\ DigitsValue(part, 0) <= 255

\* four octets separated by three dots
IsDottedQuad(ip) ==
    /\ Cardinality({ i \in DOMAIN ip : ip[i] = "." }) = 3
    /\ \A i \in DOMAIN Split(ip) : IsOctet(Split(ip)[i])

\* C18: validate_ip_address returns its input unchanged exactly when the
\* input is four dot-separated octets in [0,255], and "0.0.0.0" for every
\* other input (empty, IPv6, wrong number of parts, out-of-range or
\* non-numeric parts, parts with a sign or surrounding whitespace).
C18_OnlyDottedQuads ==
    ip_check.called =>
        ip_check.result = (IF IsDottedQuad(ip_check.ip) THEN ip_check.ip ELSE ZeroIp)

\* out is x / per, rounded to the number of decimals that scale stands for:
\* no multiple of 1/scale is nearer to x / per than out / scale
RoundedQuotient(out, x, per, scale) == 2 * Abs(out * per - x * scale) <= per

\* the raw metric, 0 when it is null
RawOrZero(raw) == IF raw.null THEN 0 ELSE raw.value

\* C19: in the row built, cost and avg_cpc are the raw micro amounts divided
\* by 1,000,000 to the nearest hundredth (2,500,000 gives 2.50), ctr is the
\* raw fraction times 100 to the nearest ten-thousandth (0.0523 gives 5.23;
\* a raw fraction in ten-millionths is ten times its percentage in
\* ten-thousandths), and a null raw metric gives 0.
C19_UnitNormalization ==
    fetched.called =>
        LET m == fetched.metrics
            r == fetched.row
        IN  /\ RoundedQuotient(r.cost, RawOrZero(m.cost_micros), 1000000, 100)
            /\ RoundedQuotient(r.avg_cpc, RawOrZero(m.average_cpc), 1000000, 100)
            /\ RoundedQuotient(r.ctr, RawOrZero(m.ctr), 10, 1)
            /\ m.cost_micros = Value(2500000) => r.cost = 250
            /\ m.ctr = Value(523000) => r.ctr = 52300
            /\ m.cost_micros.null => r.cost = 0
            /\ m.average_cpc.null => r.avg_cpc = 0
            /\ m.ctr.null => r.ctr = 0

\* the row built from 2,500,000 cost micros, a ctr of 0.0523 and no average_cpc
C19_Witness ==
    /\ fetched.called
    /\ fetched.metrics.cost_micros = Value(2500000)
    /\ fetched.metrics.ctr = Value(523000)
    /\ fetched.metrics.average_cpc.null
    /\ fetched.row = [cost |-> 250, avg_cpc |-> 0, ctr |-> 52300]

\* the named step is in the job's log
Logged(r, name) == \E i \in DOMAIN r.log : r.log[i] = name

\* C20: a job whose performance bulk insert raised has run neither the
\* reconciliation nor the audit, and a job whose reconciliation raised has
\* not run the audit; in both cases the exception has left the job and
\* reached main(), which is dead, and the job takes no further step.
C20_RaisedErrorStopsCycle ==
    [][ \A j \in JobNames :
          /\ job'[j].error = "insert" =>
                /\ job'[j].pc = "raised"
                /\ ~Logged(job'[j], "attribution")
                /\ ~Logged(job'[j], "quality")
                /\ sched' = "dead"
          /\ job'[j].error = "attribution" =>
                /\ job'[j].pc = "raised"
                /\ ~Logged(job'[j], "quality")
                /\ sched' = "dead"
          /\ job[j].error # "" => job'[j] = job[j]
      ]_vars

\* a full sync stopped by its bulk insert, with rows fetched
C20_Witness ==
    \E j \in JobNames :
        /\ RunsFullSync(j)
        /\ job[j].error = "insert"
        /\ job[j].pc = "raised"
        /\ job[j].all_performance_data # <<>>
        /\ sched = "dead"

====
